---- MODULE Spec2Model ----
(***************************************************************************)
(* State-machine model of sdk/nodejs/runtime/resource.ts: the resource     *)
(* registration client (readResource, registerResource,                   *)
(* registerResourceOutputs), its preparation step, the output merge and    *)
(* the process-wide operation chain (runAsyncResourceOp).                  *)
(*                                                                         *)
(* JavaScript runs one task at a time; every action below is one run of    *)
(* the event loop: a synchronous call made by the program, or the          *)
(* continuation of an await / promise reaction up to its next await.       *)
(***************************************************************************)
EXTENDS Integers, Sequences, FiniteSets, TLC

\* Number of resource objects the program constructs.
NRes == 2

\* Number of resource objects the program constructs in the serialized
\* scenario (SerialSpec), where declarations carry no options.
NSerial == 3

Res == 1..(IF NSerial > NRes THEN NSerial ELSE NRes)

\* The two operations a resource can have in flight: its read/register
\* operation and its registerResourceOutputs operation.
Ops == Res \X {"resource", "outputs"}

\* `Promise.resolve()`: the initial, already completed chain future.
InitialChain == <<0, "resolved">>

ResourceOp(r) == <<r, "resource">>
OutputsOp(r) == <<r, "outputs">>

\* The ids the engine can answer with ("" is protobuf's unset string).
EngineIDs == {"", "id:e"}

\* Values of opts.id a caller can pass to readResource.
IdOpts == {"undefined", "", "id:c"}

\* gRPC outcomes of a remote call.
RpcErrors == {"OK", "UNAVAILABLE", "INTERNAL"}

Range(s) == {s[i] : i \in 1..Len(s)}

VARIABLES
    serializeMode,  \* settings.serialize()
    parked,         \* waitForDeath() has been entered
    rkind,          \* per resource: "none", "register", "read", "thrown"
    custom,         \* per resource: the custom flag given to prepareResource
    opts,           \* per resource: [id, dependsOn, parent, provider], while
                    \* a pending call still reads them
    props,          \* per resource: its input values, while prepareResource
                    \* awaits them: the resources they reference, and
                    \* whether a promise among them is pending
    outputsBag,     \* per resource: the resources whose properties the bag
                    \* given to registerResourceOutputs refers to, while the
                    \* callback still has to await them
    urn,            \* per resource: res.urn  ("absent", "pending" or a URN)
    idValue,        \* per resource: raw-value channel of res.id
    idApply,        \* per resource: apply channel of res.id
    outProps,       \* per resource: the transferred property outputs
    resolveLog,     \* per resource: the resolver calls made, in order
    resp,           \* per resource: the engine's answer while the callback
                    \* resolves from it
    opState,        \* per operation: position of its callback
    opPred,         \* per operation: resourceChain when it was scheduled
    opSerial,       \* per operation: the serial flag it ran with
    req,            \* per operation: the request built for its remote call;
                    \* once sent, only which call is outstanding
    resourceChain,  \* the chain future (the operation whose finalOp it is)
    serialOrder,    \* history: the serial operations, in the order
                    \* runAsyncResourceOp was called for them
    keepAlive,      \* outstanding rpcKeepAlive() tokens
    unhandled,      \* rejections no handler consumes
    pureIn,         \* arguments of the pure function under study, if any
    pureOut         \* its result

vars == <<serializeMode, parked, rkind, custom, opts, props, outputsBag, urn,
          idValue, idApply, outProps, resolveLog, resp, opState, opPred,
          opSerial, req, resourceChain, serialOrder, keepAlive, unhandled,
          pureIn, pureOut>>

resVars == <<rkind, custom, opts, props, outputsBag>>
deferredVars == <<urn, idValue, idApply, outProps, resolveLog, resp>>
opVars == <<opState, opPred, opSerial, req, resourceChain, serialOrder, keepAlive,
            unhandled>>

NoOpts == [id |-> "undefined", dependsOn |-> <<>>, parent |-> 0, provider |-> 0]
NoProps == [refs |-> <<>>, pending |-> FALSE]
NoReq == [rpc |-> "none"]
NoResp == [urn |-> "", id |-> ""]

Idle == [done |-> FALSE]

\* The client before the program has declared anything.
Fresh ==
    /\ parked = FALSE
    /\ rkind = [r \in Res |-> "none"]
    /\ custom = [r \in Res |-> FALSE]
    /\ opts = [r \in Res |-> NoOpts]
    /\ props = [r \in Res |-> NoProps]
    /\ outputsBag = [r \in Res |-> {}]
    /\ urn = [r \in Res |-> "absent"]
    /\ idValue = [r \in Res |-> "absent"]
    /\ idApply = [r \in Res |-> "absent"]
    /\ outProps = [r \in Res |-> "absent"]
    /\ resolveLog = [r \in Res |-> <<>>]
    /\ resp = [r \in Res |-> NoResp]
    /\ opState = [o \in Ops |-> "none"]
    /\ opPred = [o \in Ops |-> InitialChain]
    /\ opSerial = [o \in Ops |-> FALSE]
    /\ req = [o \in Ops |-> NoReq]
    /\ resourceChain = InitialChain
    /\ serialOrder = <<>>
    /\ keepAlive = 0
    /\ unhandled = {}

Init ==
    /\ serializeMode \in BOOLEAN
    /\ Fresh
    /\ pureIn = <<>>
    /\ pureOut = Idle

----------------------------------------------------------------------------
(* Helpers *)

\* The lists of distinct members of S, in increasing order.
RECURSIVE ListOf(_)
ListOf(S) ==
    IF S = {} THEN <<>>
    ELSE LET m == CHOOSE x \in S : \A y \in S : x <= y
         IN <<m>> \o ListOf(S \ {m})

Lists(S) == {ListOf(T) : T \in SUBSET S}

Resolved(d) == d \notin {"absent", "pending"}

\* Resources whose constructor ran to completion before r is declared:
\* these are the objects a later declaration can name in its options.
Constructed(r) == {d \in Res : d < r /\ rkind[d] \in {"register", "read"}}

\* JavaScript truthiness of an id string.
Falsy(id) == id \in {"undefined", ""}

\* rpc.ts unknownValue, substituted for a provider id that is not known.
unknownValue == "04da6b54-80e4-46f7-96ec-b56ff0331ba9"

\* The name and type token (`name`, `t`) a resource is declared with.
NameOf(r) == r
TypeOf(r) == IF r % 2 = 1 THEN "pkg:odd" ELSE "pkg:even"

\* The engine derives a resource's URN from its type and name.
EngineURN(r) ==
    <<"urn:pkg:odd::1", "urn:pkg:even::2", "urn:pkg:odd::3", "urn:pkg:even::4">>[r]

----------------------------------------------------------------------------
(* Deferred values: prepareResource's synchronous prefix and the resolvers *)

\* Fault: an await right after res.urn is attached (line 191), so the call
\* returns to the program with the rest not yet attached.
prepareResourceUrnOnly(r, isCustom) ==
    /\ urn' = [urn EXCEPT ![r] = "pending"]
    /\ UNCHANGED <<idValue, idApply, outProps, resolveLog, resp>>

\* Fault: the `if (custom)` of line 195 is missing, so res.id is attached to
\* every resource.
prepareResourceAlwaysId(r, isCustom) ==
    /\ urn' = [urn EXCEPT ![r] = "pending"]
    /\ idValue' = [idValue EXCEPT ![r] = "pending"]
    /\ idApply' = [idApply EXCEPT ![r] = "pending"]
    /\ outProps' = [outProps EXCEPT ![r] = "pending"]
    /\ UNCHANGED <<resolveLog, resp>>

\* Lines 185-214: attach res.urn, res.id (custom only) and the property
\* outputs; nothing is awaited before all of them are attached.
prepareResource(r, isCustom) ==
    /\ urn' = [urn EXCEPT ![r] = "pending"]
    /\ idValue' = [idValue EXCEPT ![r] = IF isCustom THEN "pending" ELSE @]
    /\ idApply' = [idApply EXCEPT ![r] = IF isCustom THEN "pending" ELSE @]
    /\ outProps' = [outProps EXCEPT ![r] = "pending"]
    /\ UNCHANGED <<resolveLog, resp>>

\* A promise keeps its first resolution; later resolve calls change nothing.
Settle(cur, v) == IF cur = "pending" THEN v ELSE cur

\* Fault: the URN resolver is invoked a second time.
resolveURNTwice(log) == log \o <<"urn", "urn">>

\* resolveURN, line 189: the log after the call.
resolveURN(log) == Append(log, "urn")

\* Fault: the apply channel is resolved before the raw value.
resolveIDApplyFirst(log) == log \o <<"idApply", "idValue">>

\* resolveID, lines 204-207: resolveValue(v), then resolvePerformApply.
resolveID(log) == log \o <<"idValue", "idApply">>

\* `Array.from(new Set(xs))`: the elements in first-insertion order.
RECURSIVE SetList(_)
SetList(xs) ==
    IF xs = <<>> THEN <<>>
    ELSE LET front == SetList(SubSeq(xs, 1, Len(xs) - 1))
             last == xs[Len(xs)]
         IN IF last \in Range(front) THEN front ELSE Append(front, last)

\* Fault: the implicitly referenced resources are left out.
DependenciesExplicitOnly(explicitURNDeps, implicitURNDeps) ==
    SetList(explicitURNDeps)

\* Lines 246-249: a Set seeded with the explicit URNs, the implicit ones added.
Dependencies(explicitURNDeps, implicitURNDeps) ==
    SetList(explicitURNDeps \o implicitURNDeps)

URNsOf(rs) == [i \in 1..Len(rs) |-> urn[rs[i]]]

\* Lines 238-244.
ProviderRef(r) ==
    IF custom[r] /\ opts[r].provider # 0
    THEN LET p == opts[r].provider
             providerID == IF Falsy(idValue[p]) THEN unknownValue ELSE idValue[p]
         IN <<urn[p], providerID>>
    ELSE <<>>

\* Lines 233-236.
ParentURN(r) == IF opts[r].parent # 0 THEN urn[opts[r].parent] ELSE "undefined"

\* Fault: the parent's URN is read without being awaited (line 235).
PrepareAwaitsDoneNoParent(r) ==
    /\ \A d \in Range(opts[r].dependsOn) : Resolved(urn[d])
    /\ ~props[r].pending
    /\ \A d \in Range(props[r].refs) : Resolved(urn[d])
    /\ (custom[r] /\ opts[r].provider # 0) =>
          /\ Resolved(urn[opts[r].provider])
          /\ Resolved(idValue[opts[r].provider])

\* Everything prepareResource awaits (lines 225-249) has resolved.
PrepareAwaitsDone(r) ==
    /\ \A d \in Range(opts[r].dependsOn) : Resolved(urn[d])
    /\ ~props[r].pending
    /\ \A d \in Range(props[r].refs) : Resolved(urn[d])
    /\ opts[r].parent # 0 => Resolved(urn[opts[r].parent])
    /\ (custom[r] /\ opts[r].provider # 0) =>
          /\ Resolved(urn[opts[r].provider])
          /\ Resolved(idValue[opts[r].provider])

----------------------------------------------------------------------------------------------------------------------------------------
(* runAsyncResourceOp *)

\* Fault: finalOp completes only when resourceOp is fulfilled (line 363
\* without its rejection handler).
ChainDoneOnSuccessOnly(c) ==
    IF c = InitialChain THEN TRUE ELSE opState[c] = "fulfilled"

\* The future an operation chains on has completed.
ChainDone(c) ==
    IF c = InitialChain THEN TRUE ELSE opState[c] \in {"fulfilled", "rejected"}

\* Fault: resourceOp is not chained on resourceChain (line 353).
runAsyncResourceOpUnchained(o, serial) ==
    /\ opState' = [opState EXCEPT ![o] = "waiting"]
    /\ opPred' = [opPred EXCEPT ![o] = InitialChain]
    /\ opSerial' = [opSerial EXCEPT ![o] = serial]
    /\ keepAlive' = keepAlive + 1
    /\ resourceChain' = IF serial THEN o ELSE resourceChain
    /\ serialOrder' = IF serial THEN Append(serialOrder, o) ELSE serialOrder

\* Fault: every operation becomes the chain, whatever its serial flag.
runAsyncResourceOpAlwaysChains(o, serial) ==
    /\ opState' = [opState EXCEPT ![o] = "waiting"]
    /\ opPred' = [opPred EXCEPT ![o] = resourceChain]
    /\ opSerial' = [opSerial EXCEPT ![o] = serial]
    /\ keepAlive' = keepAlive + 1
    /\ resourceChain' = o
    /\ serialOrder' = IF serial THEN Append(serialOrder, o) ELSE serialOrder

\* Lines 348-376, the scheduling half: resourceOp is chained on the current
\* resourceChain, a keep-alive token is taken, and a serial operation
\* becomes the chain.
runAsyncResourceOp(o, serial) ==
    /\ opState' = [opState EXCEPT ![o] = "waiting"]
    /\ opPred' = [opPred EXCEPT ![o] = resourceChain]
    /\ opSerial' = [opSerial EXCEPT ![o] = serial]
    /\ keepAlive' = keepAlive + 1
    /\ resourceChain' = IF serial THEN o ELSE resourceChain
    /\ serialOrder' = IF serial THEN Append(serialOrder, o) ELSE serialOrder

\* Fault: done() is registered for fulfilment only.
resourceOpSettledKeepsToken(o, err) ==
    /\ opState' = [opState EXCEPT ![o] = IF err = <<>> THEN "fulfilled" ELSE "rejected"]
    /\ keepAlive' = IF err = <<>> THEN keepAlive - 1 ELSE keepAlive
    /\ unhandled' = IF err = <<>> THEN unhandled ELSE unhandled \cup {err}
    /\ req' = [req EXCEPT ![o] = NoReq]
    /\ opts' = IF o[2] = "resource" THEN [opts EXCEPT ![o[1]] = NoOpts] ELSE opts
    /\ props' = IF o[2] = "resource" THEN [props EXCEPT ![o[1]] = NoProps] ELSE props
    /\ UNCHANGED <<opPred, opSerial, resourceChain, serialOrder, rkind, custom,
                   outputsBag>>

\* Fault: line 366 is missing, so finalOp's handler consumes the rejection.
resourceOpSettledSwallows(o, err) ==
    /\ opState' = [opState EXCEPT ![o] = IF err = <<>> THEN "fulfilled" ELSE "rejected"]
    /\ keepAlive' = keepAlive - 1
    /\ unhandled' = unhandled
    /\ req' = [req EXCEPT ![o] = NoReq]
    /\ opts' = IF o[2] = "resource" THEN [opts EXCEPT ![o[1]] = NoOpts] ELSE opts
    /\ props' = IF o[2] = "resource" THEN [props EXCEPT ![o[1]] = NoProps] ELSE props
    /\ UNCHANGED <<opPred, opSerial, resourceChain, serialOrder, rkind, custom,
                   outputsBag>>

\* Lines 363-366, the reactions to resourceOp settling: done() on either
\* outcome, and a rejection re-raised on a promise nobody handles.  The
\* request and the arguments the callback closed over are released.
resourceOpSettled(o, err) ==
    /\ opState' = [opState EXCEPT ![o] = IF err = <<>> THEN "fulfilled" ELSE "rejected"]
    /\ keepAlive' = keepAlive - 1
    /\ unhandled' = IF err = <<>> THEN unhandled ELSE unhandled \cup {err}
    /\ req' = [req EXCEPT ![o] = NoReq]
    /\ opts' = IF o[2] = "resource" THEN [opts EXCEPT ![o[1]] = NoOpts] ELSE opts
    /\ props' = IF o[2] = "resource" THEN [props EXCEPT ![o[1]] = NoProps] ELSE props
    /\ UNCHANGED <<opPred, opSerial, resourceChain, serialOrder, rkind, custom,
                   outputsBag>>

----------------------------------------------------------------------------
(* Calls made by the program *)

\* Most references to other resources one declaration makes (dependsOn
\* entries, resources referenced by input values, parent, provider).
MaxRefs == 1

RefCount(o, p) ==
    Len(o.dependsOn) + Len(p.refs) + (IF o.parent # 0 THEN 1 ELSE 0)
        + (IF o.provider # 0 THEN 1 ELSE 0)

\* The options and referencing input values a declaration of r can carry.
Declarations(r, ids) ==
    {d \in [opts : [id : ids,
                    dependsOn : Lists(Constructed(r)),
                    parent : {0} \cup Constructed(r),
                    provider : {0} \cup {c \in Constructed(r) : custom[c]}],
            props : [refs : Lists(Constructed(r)), pending : BOOLEAN]] :
        RefCount(d.opts, d.props) <= MaxRefs}

\* Resources are constructed one after the other, in index order.
NextToDeclare(r) ==
    /\ rkind[r] = "none"
    /\ \A q \in Res : q < r => rkind[q] # "none"

\* The resource the program constructs next, when it constructs n in all.
ToDeclare(n) == {q \in 1..n : NextToDeclare(q)}

\* registerResource, lines 112-125 up to the first suspension.
RegisterResource(r, isCustom, o, p) ==
    /\ ~parked
    /\ NextToDeclare(r)
    /\ rkind' = [rkind EXCEPT ![r] = "register"]
    /\ custom' = [custom EXCEPT ![r] = isCustom]
    /\ opts' = [opts EXCEPT ![r] = o]
    /\ props' = [props EXCEPT ![r] = p]
    /\ prepareResource(r, isCustom)
    /\ UNCHANGED <<serializeMode, pureIn, pureOut, parked, outputsBag, opVars>>

\* Fault: the id check of lines 58-60 is missing.
ReadResourceUnchecked(r, o, p) ==
    /\ ~parked
    /\ NextToDeclare(r)
    /\ rkind' = [rkind EXCEPT ![r] = "read"]
    /\ opts' = [opts EXCEPT ![r] = o]
    /\ custom' = [custom EXCEPT ![r] = TRUE]
    /\ props' = [props EXCEPT ![r] = p]
    /\ prepareResource(r, TRUE)
    /\ UNCHANGED <<serializeMode, pureIn, pureOut, parked, outputsBag, opVars>>

\* readResource, lines 56-68 up to the first suspension.
ReadResource(r, o, p) ==
    /\ ~parked
    /\ NextToDeclare(r)
    /\ IF Falsy(o.id)
       THEN \* line 59: throw before anything else is looked at
            /\ rkind' = [rkind EXCEPT ![r] = "thrown"]
            /\ opts' = [opts EXCEPT ![r] = [NoOpts EXCEPT !.id = o.id]]
            /\ UNCHANGED <<custom, props, deferredVars>>
       ELSE /\ rkind' = [rkind EXCEPT ![r] = "read"]
            /\ opts' = [opts EXCEPT ![r] = o]
            /\ custom' = [custom EXCEPT ![r] = TRUE]
            /\ props' = [props EXCEPT ![r] = p]
            /\ prepareResource(r, TRUE)
    /\ UNCHANGED <<serializeMode, pureIn, pureOut, parked, outputsBag, opVars>>

\* The output bags registerResourceOutputs can be given for r: their values
\* refer to properties of other resources the program has constructed,
\* whether or not these are registered yet.
OutputBags(r) ==
    {b \in SUBSET {q \in Res : q # r /\ rkind[q] \in {"register", "read"}} :
        Cardinality(b) <= MaxRefs}

\* Fault: the outputs operation is serialized like any other (line 335
\* without its `false`).
RegisterResourceOutputsSerial(r, bag) ==
    /\ ~parked
    /\ rkind[r] = "register" /\ ~custom[r]
    /\ opState[OutputsOp(r)] = "none"
    /\ runAsyncResourceOp(OutputsOp(r), serializeMode)
    /\ outputsBag' = [outputsBag EXCEPT ![r] = bag]
    /\ UNCHANGED <<serializeMode, pureIn, pureOut, parked, rkind, custom, opts, props,
                   deferredVars, req, unhandled>>

\* registerResourceOutputs, lines 294-336: the call itself only schedules
\* the callback, explicitly non-serial.  Its callers pass a registered
\* component resource (ComponentResource.registerOutputs, the stack).
RegisterResourceOutputs(r, bag) ==
    /\ ~parked
    /\ rkind[r] = "register" /\ ~custom[r]
    /\ opState[OutputsOp(r)] = "none"
    /\ runAsyncResourceOp(OutputsOp(r), FALSE)
    /\ outputsBag' = [outputsBag EXCEPT ![r] = bag]
    /\ UNCHANGED <<serializeMode, pureIn, pureOut, parked, rkind, custom, opts, props,
                   deferredVars, req, unhandled>>

----------------------------------------------------------------------------
(* Continuations *)

\* A promise among the input values resolves (user code, or anything else
\* the program awaits); serializeResourceProperties, line 231, waits for it.
InputResolved(r) ==
    /\ ~parked
    /\ props[r].pending
    /\ props' = [props EXCEPT ![r].pending = FALSE]
    /\ UNCHANGED <<serializeMode, pureIn, pureOut, parked, rkind, custom, opts, outputsBag,
                   deferredVars, opVars>>

\* prepareResource resolves (line 251) and the `.then` callback of
\* readResource / registerResource builds the request and schedules the
\* remote call (lines 68-85, 125-141).
PrepareDone(r) ==
    /\ ~parked
    /\ rkind[r] \in {"register", "read"}
    /\ opState[ResourceOp(r)] = "none"
    /\ PrepareAwaitsDone(r)
    /\ req' = [req EXCEPT ![ResourceOp(r)] =
                 [rpc |-> rkind[r],
                  id |-> IF rkind[r] = "read" THEN opts[r].id ELSE "undefined",
                  parent |-> ParentURN(r),
                  provider |-> ProviderRef(r),
                  dependencies |-> Dependencies(URNsOf(opts[r].dependsOn),
                                                URNsOf(props[r].refs))]]
    /\ runAsyncResourceOp(ResourceOp(r), serializeMode)
    \* prepareResource has returned: of the arguments only the id is read again
    /\ opts' = [opts EXCEPT ![r] = [NoOpts EXCEPT !.id = opts[r].id]]
    /\ props' = [props EXCEPT ![r] = NoProps]
    /\ UNCHANGED <<serializeMode, pureIn, pureOut, parked, rkind, custom, outputsBag,
                   deferredVars, unhandled>>

\* Fault: waitForDeath returns, so a chained callback can still start.
StartOpWhileParked(o) ==
    /\ opState[o] = "waiting"
    /\ ChainDone(opPred[o])
    /\ opState' = [opState EXCEPT ![o] = IF o[2] = "resource" THEN "rpc" ELSE "awaitUrn"]
    /\ opPred' = [opPred EXCEPT ![o] = InitialChain]
    /\ req' = [req EXCEPT ![o] = IF o[2] = "resource" THEN [rpc |-> @.rpc] ELSE @]
    /\ UNCHANGED <<serializeMode, pureIn, pureOut, parked, resVars, deferredVars, opSerial,
                   resourceChain, serialOrder, keepAlive, unhandled>>

\* Lines 353-359: the chained callback starts.  A read/register callback
\* issues its remote call at once; the outputs callback first awaits the URN.
StartOp(o) ==
    /\ ~parked
    /\ opState[o] = "waiting"
    /\ ChainDone(opPred[o])
    /\ opState' = [opState EXCEPT ![o] = IF o[2] = "resource" THEN "rpc" ELSE "awaitUrn"]
    /\ opPred' = [opPred EXCEPT ![o] = InitialChain]
    /\ req' = [req EXCEPT ![o] = IF o[2] = "resource" THEN [rpc |-> @.rpc] ELSE @]
    /\ UNCHANGED <<serializeMode, pureIn, pureOut, parked, resVars, deferredVars, opSerial,
                   resourceChain, serialOrder, keepAlive, unhandled>>

\* Fault: the callback reads res.urn without awaiting it (line 303).
OutputsIssueUnawaited(r) ==
    /\ ~parked
    /\ opState[OutputsOp(r)] = "awaitUrn"
    /\ \A q \in outputsBag[r] : Resolved(outProps[q])
    /\ opState' = [opState EXCEPT ![OutputsOp(r)] = "rpc"]
    /\ req' = [req EXCEPT ![OutputsOp(r)] = [rpc |-> "outputs", urn |-> urn[r]]]
    /\ outputsBag' = [outputsBag EXCEPT ![r] = {}]
    /\ UNCHANGED <<serializeMode, pureIn, pureOut, parked, rkind, custom, opts, props,
                   deferredVars, opPred, opSerial, resourceChain, serialOrder, keepAlive,
                   unhandled>>

\* Lines 303-317: the URN has resolved (line 303) and so has every property
\* the bag refers to (serializeProperties, line 304); the outputs request is
\* built and sent.
OutputsIssue(r) ==
    /\ ~parked
    /\ opState[OutputsOp(r)] = "awaitUrn"
    /\ Resolved(urn[r])
    /\ \A q \in outputsBag[r] : Resolved(outProps[q])
    /\ opState' = [opState EXCEPT ![OutputsOp(r)] = "rpc"]
    /\ req' = [req EXCEPT ![OutputsOp(r)] = [rpc |-> "outputs", urn |-> urn[r]]]
    /\ outputsBag' = [outputsBag EXCEPT ![r] = {}]
    /\ UNCHANGED <<serializeMode, pureIn, pureOut, parked, rkind, custom, opts, props,
                   deferredVars, opPred, opSerial, resourceChain, serialOrder, keepAlive,
                   unhandled>>

\* The error a failed remote call rejects with: for a read or register the
\* preallocated error, whose message names the resource's name and type
\* (lines 90-92, 154-155); for outputs the transport's error as it came
\* (line 329).  `from` is the operation whose promise was rejected.
RpcError(o, code) ==
    IF o[2] = "resource"
    THEN [from |-> o, rpc |-> req[o].rpc, name |-> NameOf(o[1]), type |-> TypeOf(o[1]),
          detail |-> code]
    ELSE [from |-> o, rpc |-> "outputs", detail |-> code]

\* Lines 162-172 and 100-102: resolveURN(resp.getUrn()), then resolveID with
\* `id` when there is a resolver, then the call of resolveOutputs, which runs
\* on in the same turn up to its first await.  `answer` is the response in
\* hand.  `echoed` says that the answer has a value for every input key
\* (line 276), the case of a resource without inputs included: the loop then
\* awaits nothing and resolveProperties (line 288) runs in this turn too;
\* otherwise resolveOutputs suspends at line 280.
ResolveIdentity(r, answer, id, echoed) ==
    /\ resp' = [resp EXCEPT ![r] = answer]
    /\ urn' = [urn EXCEPT ![r] = Settle(@, answer.urn)]
    /\ idValue' = [idValue EXCEPT ![r] = IF custom[r] THEN Settle(@, id) ELSE @]
    /\ idApply' = [idApply EXCEPT ![r] =
                     IF custom[r]
                     THEN Settle(@, IF id # "undefined" THEN "true" ELSE "false")
                     ELSE @]
    /\ resolveLog' = [resolveLog EXCEPT ![r] =
                        IF custom[r] THEN resolveID(resolveURN(@)) ELSE resolveURN(@)]
    /\ outProps' = [outProps EXCEPT ![r] = IF echoed THEN Settle(@, "resolved") ELSE @]
    /\ opState' = [opState EXCEPT ![ResourceOp(r)] = "merging"]
    /\ UNCHANGED <<resVars, opPred, opSerial, req, resourceChain,
                   serialOrder, keepAlive, unhandled>>

\* Fault: line 167 hands the engine's id on without `|| undefined`.
RegisterReturnsNoCollapse(r, code, respId, echoed) ==
    /\ ~parked
    /\ rkind[r] = "register"
    /\ opState[ResourceOp(r)] = "rpc"
    /\ IF code = "UNAVAILABLE"
       THEN /\ parked' = TRUE
            /\ UNCHANGED <<resVars, deferredVars, opVars>>
       ELSE IF code # "OK"
       THEN /\ resourceOpSettled(ResourceOp(r), RpcError(ResourceOp(r), code))
            /\ UNCHANGED <<parked, deferredVars>>
       ELSE /\ ResolveIdentity(r, [urn |-> EngineURN(r), id |-> respId], respId, echoed)
            /\ UNCHANGED parked
    /\ UNCHANGED <<serializeMode, pureIn, pureOut>>

\* Lines 143-172: the RegisterResource call returns.
RegisterReturns(r, code, respId, echoed) ==
    /\ ~parked
    /\ rkind[r] = "register"
    /\ opState[ResourceOp(r)] = "rpc"
    /\ IF code = "UNAVAILABLE"
       THEN \* line 150: waitForDeath() never returns
            /\ parked' = TRUE
            /\ UNCHANGED <<resVars, deferredVars, opVars>>
       ELSE IF code # "OK"
       THEN /\ resourceOpSettled(ResourceOp(r), RpcError(ResourceOp(r), code))
            /\ UNCHANGED <<parked, deferredVars>>
       ELSE \* line 167: `resp.getId() || undefined`
            /\ ResolveIdentity(r, [urn |-> EngineURN(r), id |-> respId],
                               IF respId = "" THEN "undefined" ELSE respId, echoed)
            /\ UNCHANGED parked
    /\ UNCHANGED <<serializeMode, pureIn, pureOut>>

\* Fault: a read resolves the id to one the engine assigned.
ReadReturnsEngineId(r, code, echoed) ==
    /\ ~parked
    /\ rkind[r] = "read"
    /\ opState[ResourceOp(r)] = "rpc"
    /\ IF code # "OK"
       THEN /\ resourceOpSettled(ResourceOp(r), RpcError(ResourceOp(r), code))
            /\ UNCHANGED deferredVars
       ELSE ResolveIdentity(r, [urn |-> EngineURN(r), id |-> "id:e"], "id:e", echoed)
    /\ UNCHANGED <<serializeMode, pureIn, pureOut, parked>>

\* Lines 86-102: the ReadResource call returns.
ReadReturns(r, code, echoed) ==
    /\ ~parked
    /\ rkind[r] = "read"
    /\ opState[ResourceOp(r)] = "rpc"
    /\ IF code # "OK"
       THEN /\ resourceOpSettled(ResourceOp(r), RpcError(ResourceOp(r), code))
            /\ UNCHANGED deferredVars
       ELSE \* line 101: the id is the caller's resolvedID; the answer has none
            ResolveIdentity(r, [urn |-> EngineURN(r), id |-> ""], opts[r].id, echoed)
    /\ UNCHANGED <<serializeMode, pureIn, pureOut, parked>>

\* Lines 280-288: resolveOutputs resumes from the await of line 280, the
\* loop ends and resolveProperties resolves the property outputs.  The
\* callback is still suspended at line 102/172.
OutputsResolved(r) ==
    /\ ~parked
    /\ opState[ResourceOp(r)] = "merging"
    /\ outProps[r] = "pending"
    /\ outProps' = [outProps EXCEPT ![r] = Settle(@, "resolved")]
    /\ UNCHANGED <<serializeMode, pureIn, pureOut, parked, resVars, urn, idValue, idApply,
                   resolveLog, resp, opVars>>

\* In a later turn: the callback resumes from its await of resolveOutputs
\* (line 102/172) and returns, resourceOp is fulfilled (lines 353-359) and
\* the reaction of line 363 calls done().
ResourceOpFulfilled(r) ==
    /\ ~parked
    /\ opState[ResourceOp(r)] = "merging"
    /\ Resolved(outProps[r])
    /\ resp' = [resp EXCEPT ![r] = NoResp]
    /\ resourceOpSettled(ResourceOp(r), <<>>)
    /\ UNCHANGED <<serializeMode, pureIn, pureOut, parked, urn, idValue, idApply, outProps,
                   resolveLog>>

\* Lines 317-334: the RegisterResourceOutputs call returns.
OutputsReturns(r, code) ==
    /\ ~parked
    /\ opState[OutputsOp(r)] = "rpc"
    /\ IF code = "UNAVAILABLE"
       THEN /\ parked' = TRUE
            /\ UNCHANGED <<resVars, opVars>>
       ELSE /\ resourceOpSettled(OutputsOp(r),
                                 IF code = "OK" THEN <<>> ELSE RpcError(OutputsOp(r), code))
            /\ UNCHANGED parked
    /\ UNCHANGED <<serializeMode, pureIn, pureOut, deferredVars>>

----------------------------------------------------------------------------
(* Output merge, lines 265-289.  The property codec (rpc.ts) is outside    *)
(* this file; it is modelled from its contract: serializeProperty maps     *)
(* undefined to undefined, an output of unknown value to the unknown       *)
(* sentinel and any other value to its wire form; deserializeProperty      *)
(* maps a wire form back to the value.                                     *)

Keys == {"foo", "bar", "baz"}
PlainValues == {"x", "y", "z"}
InputValues == {"undefined", "output:unknown", "y", "z"}
Wire == [v \in PlainValues |-> CASE v = "x" -> "wire:x" [] v = "y" -> "wire:y"
                                                      [] OTHER -> "wire:z"]
WireValues == {Wire[v] : v \in {"x", "z"}}

serializeProperty(v) ==
    IF v = "undefined" THEN "undefined"
    ELSE IF v = "output:unknown" THEN unknownValue
    ELSE Wire[v]

deserializeProperty(w) ==
    IF w = unknownValue THEN "unknown"
    ELSE CHOOSE v \in PlainValues : Wire[v] = w

deserializeProperties(bag) == [k \in DOMAIN bag |-> deserializeProperty(bag[k])]

\* Property bags: a value for each key the object has.
Bags(vals) == UNION {[ks -> vals] : ks \in SUBSET Keys}

\* Lines 275-286, the loop over Object.keys(props).
RECURSIVE MergeInputs(_, _, _)
MergeInputs(keys, inputs, allProps) ==
    IF keys = {} THEN allProps
    ELSE LET key == CHOOSE k \in keys : TRUE
             rest == keys \ {key}
             inputProp == serializeProperty(inputs[key])
         IN IF key \in DOMAIN allProps THEN MergeInputs(rest, inputs, allProps)
            ELSE IF inputProp = "undefined" THEN MergeInputs(rest, inputs, allProps)
            ELSE MergeInputs(rest, inputs,
                             allProps @@ (key :> deserializeProperty(inputProp)))

\* Fault: an input value replaces the value the engine returned.
resolveOutputsInputsWin(inputs, outputs) ==
    LET fromInputs == MergeInputs(DOMAIN inputs, inputs, <<>>)
    IN fromInputs @@ (IF outputs.present THEN deserializeProperties(outputs.bag) ELSE <<>>)

\* Lines 265-288: the bag handed to resolveProperties.
resolveOutputs(inputs, outputs) ==
    MergeInputs(DOMAIN inputs, inputs,
                IF outputs.present THEN deserializeProperties(outputs.bag) ELSE <<>>)

\* resolveOutputs applied to any input bag and any engine answer.
MergeInit ==
    /\ serializeMode = FALSE
    /\ Fresh
    /\ pureIn \in [props : Bags(InputValues),
                   outputs : [present : {TRUE}, bag : Bags(WireValues)]
                             \cup [present : {FALSE}, bag : {<<>>}]]
    /\ pureOut = Idle

Merge ==
    /\ ~pureOut.done
    /\ pureOut' = [done |-> TRUE, value |-> resolveOutputs(pureIn.props, pureIn.outputs)]
    /\ UNCHANGED <<serializeMode, parked, resVars, deferredVars, opVars, pureIn>>

MergeSpec == MergeInit /\ [][Merge]_vars

----------------------------------------------------------------------------
(* The dependency set of a request, lines 246-249, on any two lists.       *)

\* Longest list of explicit, and of implicit, dependencies.
MaxDepLen == 2

DepURNs == {"urn:A", "urn:B", "urn:C"}

SeqsUpTo(S, n) == UNION {[1..k -> S] : k \in 0..n}

DepsInit ==
    /\ serializeMode = FALSE
    /\ Fresh
    /\ pureIn \in [explicit : SeqsUpTo(DepURNs, MaxDepLen),
                   implicit : SeqsUpTo(DepURNs, MaxDepLen)]
    /\ pureOut = Idle

CollectDependencies ==
    /\ ~pureOut.done
    /\ pureOut' = [done |-> TRUE, value |-> Dependencies(pureIn.explicit, pureIn.implicit)]
    /\ UNCHANGED <<serializeMode, parked, resVars, deferredVars, opVars, pureIn>>

DepsSpec == DepsInit /\ [][CollectDependencies]_vars

----------------------------------------------------------------------------
Next ==
    \/ \E r \in ToDeclare(NRes), c \in BOOLEAN :
         \E d \in Declarations(r, {"undefined"}) : RegisterResource(r, c, d.opts, d.props)
    \/ \E r \in ToDeclare(NRes) :
         \E d \in Declarations(r, IdOpts) : ReadResource(r, d.opts, d.props)
    \/ \E r \in Res : InputResolved(r)
    \/ \E r \in Res : \E bag \in OutputBags(r) : RegisterResourceOutputs(r, bag)
    \/ \E r \in Res : PrepareDone(r)
    \/ \E o \in Ops : StartOp(o)
    \/ \E r \in Res : OutputsIssue(r)
    \/ \E r \in Res, code \in RpcErrors, i \in EngineIDs, e \in BOOLEAN :
         RegisterReturns(r, code, i, e)
    \/ \E r \in Res, code \in RpcErrors, e \in BOOLEAN : ReadReturns(r, code, e)
    \/ \E r \in Res : OutputsResolved(r)
    \/ \E r \in Res : ResourceOpFulfilled(r)
    \/ \E r \in Res, code \in RpcErrors : OutputsReturns(r, code)

Spec == Init /\ [][Next]_vars

\* The event loop runs every continuation that is ready: a reaction whose
\* promise has settled is run in a later turn.
LoopFairness ==
    /\ \A r \in Res : WF_vars(PrepareDone(r))
    /\ \A o \in Ops : WF_vars(StartOp(o))
    /\ \A r \in Res : WF_vars(OutputsIssue(r))
    /\ \A r \in Res : WF_vars(OutputsResolved(r))
    /\ \A r \in Res : WF_vars(ResourceOpFulfilled(r))

\* The engine answers every remote call, in one way or another.
EngineAnswers ==
    /\ \A r \in Res :
          WF_vars(\E code \in RpcErrors, i \in EngineIDs, e \in BOOLEAN :
                     RegisterReturns(r, code, i, e))
    /\ \A r \in Res : WF_vars(\E code \in RpcErrors, e \in BOOLEAN : ReadReturns(r, code, e))
    /\ \A r \in Res : WF_vars(\E code \in RpcErrors : OutputsReturns(r, code))

\* Every promise among the input values is resolved in the end.
InputsResolve == \A r \in Res : WF_vars(InputResolved(r))

\* The program of Spec with an engine that answers every call successfully.
OkNext ==
    \/ \E r \in ToDeclare(NRes), c \in BOOLEAN :
         \E d \in Declarations(r, {"undefined"}) : RegisterResource(r, c, d.opts, d.props)
    \/ \E r \in ToDeclare(NRes) :
         \E d \in Declarations(r, IdOpts) : ReadResource(r, d.opts, d.props)
    \/ \E r \in Res : InputResolved(r)
    \/ \E r \in Res : \E bag \in OutputBags(r) : RegisterResourceOutputs(r, bag)
    \/ \E r \in Res : PrepareDone(r)
    \/ \E o \in Ops : StartOp(o)
    \/ \E r \in Res : OutputsIssue(r)
    \/ \E r \in Res, i \in EngineIDs, e \in BOOLEAN : RegisterReturns(r, "OK", i, e)
    \/ \E r \in Res, e \in BOOLEAN : ReadReturns(r, "OK", e)
    \/ \E r \in Res : OutputsResolved(r)
    \/ \E r \in Res : ResourceOpFulfilled(r)
    \/ \E r \in Res : OutputsReturns(r, "OK")

OkSpec == Init /\ [][OkNext]_vars /\ LoopFairness /\ EngineAnswers /\ InputsResolve

\* The serialized scenario: serialize() is on and the program registers
\* (custom resources) or reads NSerial resources, with no options but a
\* read's id and no pending inputs, and attaches no outputs; the engine
\* assigns an id to every resource it registers.
SerialInit ==
    /\ serializeMode = TRUE
    /\ Fresh
    /\ pureIn = <<>>
    /\ pureOut = Idle

SerialNext ==
    \/ \E r \in ToDeclare(NSerial) : RegisterResource(r, TRUE, NoOpts, NoProps)
    \/ \E r \in ToDeclare(NSerial) : ReadResource(r, [NoOpts EXCEPT !.id = "id:c"], NoProps)
    \/ \E r \in Res : PrepareDone(r)
    \/ \E o \in Ops : StartOp(o)
    \/ \E r \in Res, code \in RpcErrors, e \in BOOLEAN : RegisterReturns(r, code, "id:e", e)
    \/ \E r \in Res, code \in RpcErrors, e \in BOOLEAN : ReadReturns(r, code, e)
    \/ \E r \in Res : OutputsResolved(r)
    \/ \E r \in Res : ResourceOpFulfilled(r)

SerialSpec == SerialInit /\ [][SerialNext]_vars /\ LoopFairness /\ EngineAnswers

----------------------------------------------------------------------------
(* Properties *)

Declared(r) == rkind[r] \in {"register", "read"}

\* The remote call of r's read/register operation has been issued / has returned.
Issued(r) == opState[ResourceOp(r)] \in {"rpc", "merging", "fulfilled", "rejected"}
Returned(r) == opState[ResourceOp(r)] \in {"merging", "fulfilled", "rejected"}

\* Scheduled operations whose callback has not completed.
Live == {o \in Ops : opState[o] \in {"waiting", "awaitUrn", "rpc", "merging"}}

Count(log, ev) == Cardinality({i \in 1..Len(log) : log[i] = ev})

\* A remote call has failed with UNAVAILABLE.
UnavailableSeen == parked \/ \E e \in unhandled : e.detail = "UNAVAILABLE"

\* C1: in serialize mode, for resources A then B in declaration order, the
\* remote call for B is not issued until the one for A has returned, even
\* when B's preparation completes first.
C1_DeclarationOrder ==
    serializeMode =>
        \A a, b \in Res :
            (a < b /\ Declared(a) /\ Declared(b) /\ Issued(b)) => Returned(a)

\* C2: a registerResourceOutputs operation for A never waits for the
\* registration of another resource B that is on the chain when it is
\* scheduled: while its callback has not started, it is not held back by
\* B's operation.
C2_OutputsDoNotWaitOnChain ==
    \A a, b \in Res :
        (a # b /\ opState[OutputsOp(a)] = "waiting"
               /\ opPred[OutputsOp(a)] = ResourceOp(b)) => ChainDone(ResourceOp(b))

\* C3: a remote call (read, register or outputs) that fails with UNAVAILABLE
\* raises no error, and no remote call is issued afterwards.
C3_UnavailableIsSilent ==
    [][/\ \A e \in unhandled' : e.detail # "UNAVAILABLE"
       /\ UnavailableSeen =>
              \A o \in Ops : opState'[o] = "rpc" => opState[o] = "rpc"]_vars

\* C4 as stated: the URN of every resource resolves to a non-empty identifier
\* exactly once, whatever the outcome of its remote call.
C4_UrnResolvesExactlyOnce ==
    \A r \in Res :
        opState[ResourceOp(r)] \in {"fulfilled", "rejected"} =>
            /\ Count(resolveLog[r], "urn") = 1
            /\ Resolved(urn[r]) /\ urn[r] # ""

\* C4, amended: the URN resolver of a resource is never called twice; it is
\* called exactly when the remote call has returned successfully, and the
\* URN is then the (non-empty) one the engine answered; after a failed call
\* the URN stays unresolved.
C4_UrnResolvesAtMostOnce ==
    \A r \in Res :
        /\ Count(resolveLog[r], "urn") <= 1
        /\ Count(resolveLog[r], "urn") = 1 <=>
               opState[ResourceOp(r)] \in {"merging", "fulfilled"}
        /\ Resolved(urn[r]) <=> Count(resolveLog[r], "urn") = 1
        /\ Resolved(urn[r]) => urn[r] = EngineURN(r) /\ urn[r] # ""

C4_Witness ==
    \E r, q \in Res :
        /\ opState[ResourceOp(r)] = "fulfilled" /\ Resolved(urn[r])
        /\ opState[ResourceOp(q)] = "rejected" /\ urn[q] = "pending"

\* C5: the dependency list of a request holds exactly the URNs of the
\* explicit dependencies and of the implicitly referenced resources, each
\* once, whatever the order and multiplicity in the two lists.
C5_DependenciesAreTheUnion ==
    pureOut.done =>
        /\ Range(pureOut.value) = Range(pureIn.explicit) \cup Range(pureIn.implicit)
        /\ Cardinality(Range(pureOut.value)) = Len(pureOut.value)

\* A depends on B explicitly and references C: {B.urn, C.urn}; and a
\* resource named on both sides is listed once.
C5_Witness ==
    /\ pureOut.done
    /\ pureIn.explicit = <<"urn:B", "urn:C">>
    /\ pureIn.implicit = <<"urn:C", "urn:A">>
    /\ Range(pureOut.value) = {"urn:A", "urn:B", "urn:C"}

\* C6: the merged bag holds every engine key with the engine's value, every
\* other input key whose serialization is defined with the round-tripped
\* input value, and nothing else.
C6_OutputMerge ==
    pureOut.done =>
        LET engine == IF pureIn.outputs.present
                      THEN deserializeProperties(pureIn.outputs.bag) ELSE <<>>
            kept == {k \in DOMAIN pureIn.props \ DOMAIN engine :
                        serializeProperty(pureIn.props[k]) # "undefined"}
        IN /\ DOMAIN pureOut.value = DOMAIN engine \cup kept
           /\ \A k \in DOMAIN engine : pureOut.value[k] = engine[k]
           /\ \A k \in kept :
                 pureOut.value[k] =
                     deserializeProperty(serializeProperty(pureIn.props[k]))

\* Engine {foo: x}, inputs {foo: y, bar: z, baz: undefined}: {foo: x, bar: z}.
C6_Witness ==
    /\ pureOut.done
    /\ pureIn.outputs = [present |-> TRUE, bag |-> ("foo" :> "wire:x")]
    /\ pureIn.props = ("foo" :> "y" @@ "bar" :> "z" @@ "baz" :> "undefined")
    /\ pureOut.value = ("foo" :> "x" @@ "bar" :> "z")

\* C7: a readResource whose options lack an id throws at once: a read that
\* goes on has an id, and a read without one leaves no deferred value on the
\* resource, schedules nothing, takes no token and sends nothing.
C7_ReadWithoutIdFailsAtOnce ==
    /\ [](\A r \in Res :
            /\ (rkind[r] = "read" /\ opState[ResourceOp(r)] = "none") =>
                   ~Falsy(opts[r].id)
            /\ rkind[r] = "thrown" =>
                   /\ Falsy(opts[r].id)
                   /\ urn[r] = "absent" /\ idValue[r] = "absent"
                   /\ idApply[r] = "absent" /\ outProps[r] = "absent"
                   /\ opState[ResourceOp(r)] = "none" /\ opState[OutputsOp(r)] = "none"
                   /\ req[ResourceOp(r)] = NoReq
                   /\ resourceChain # ResourceOp(r))
    /\ [][\A r \in Res :
            (rkind[r] = "none" /\ rkind'[r] = "thrown") =>
                UNCHANGED <<keepAlive, resourceChain, opState, req, deferredVars>>]_vars

C7_Witness ==
    \E r, q \in Res : rkind[r] = "thrown" /\ Issued(q) /\ keepAlive > 0

\* C8: the raw value of a custom resource's id is resolved before its apply
\* channel: the apply channel is never resolved, let alone to true, while
\* the value is pending.
C8_IdValueBeforeApply ==
    \A r \in Res :
        /\ \A i \in 1..Len(resolveLog[r]) :
              resolveLog[r][i] = "idApply" =>
                  \E j \in 1..(i - 1) : resolveLog[r][j] = "idValue"
        /\ idApply[r] \in {"true", "false"} <=> Count(resolveLog[r], "idApply") > 0
        /\ idApply[r] = "true" => Resolved(idValue[r]) /\ idValue[r] # "undefined"

C8_Witness ==
    \E r, q \in Res : idApply[r] = "true" /\ idApply[q] = "false"

\* C9: the outstanding keep-alive tokens are exactly the scheduled
\* operations that have not completed, so at least one is held while a
\* remote call is outstanding.
C9_KeepAliveTokens ==
    /\ keepAlive = Cardinality(Live)
    /\ (\E o \in Ops : opState[o] = "rpc") => keepAlive > 0

C9_Witness ==
    /\ keepAlive = 1
    /\ \E o, f, g \in Ops :
          opState[o] = "rpc" /\ opState[f] = "rejected" /\ opState[g] = "fulfilled"

\* C10: a read or register call that fails (for a reason other than engine
\* shutdown) leaves an unhandled rejection naming the resource's name and
\* type, while the chain future it fed still completes.
C10_FailureSurfaces ==
    \A r \in Res :
        opState[ResourceOp(r)] = "rejected" =>
            /\ \E e \in unhandled :
                  /\ e.from = ResourceOp(r) /\ e.rpc = rkind[r]
                  /\ e.name = NameOf(r) /\ e.type = TypeOf(r)
            /\ ChainDone(ResourceOp(r))

C10_Witness ==
    \E r \in Res :
        /\ opState[ResourceOp(r)] = "rejected"
        /\ opSerial[ResourceOp(r)]
        /\ \E e \in unhandled : e.from = ResourceOp(r) /\ e.detail = "INTERNAL"

\* C11: once a read has returned successfully, the resource's URN is the
\* engine's answer and its id is the id the caller supplied, with apply
\* enabled: never an id of the engine's; before that the id is unresolved.
C11_ReadResolvesCallerId ==
    \A r \in Res :
        rkind[r] = "read" =>
            /\ opState[ResourceOp(r)] = "merging" =>
                   /\ urn[r] = resp[r].urn
                   /\ idValue[r] = opts[r].id
            /\ opState[ResourceOp(r)] \in {"merging", "fulfilled"} =>
                   /\ urn[r] = EngineURN(r)
                   /\ idValue[r] \in IdOpts /\ ~Falsy(idValue[r])
                   /\ idValue[r] \notin EngineIDs
                   /\ idApply[r] = "true"
            /\ opState[ResourceOp(r)] \notin {"merging", "fulfilled"} =>
                   /\ idValue[r] = "pending" /\ idApply[r] = "pending"
                   /\ urn[r] = "pending"

C11_Witness ==
    \E r \in Res :
        /\ rkind[r] = "read" /\ opState[ResourceOp(r)] = "fulfilled"
        /\ idValue[r] = "id:c" /\ urn[r] = EngineURN(r)

\* C12: once a register has returned successfully, a custom resource's id
\* is the engine's id with apply enabled when that id is non-empty, and
\* undefined with apply disabled when it is empty; a non-custom resource
\* has no id and its id resolver is never called.
C12_RegisterResolvesEngineId ==
    \A r \in Res :
        rkind[r] = "register" =>
            /\ ~custom[r] =>
                   /\ idValue[r] = "absent" /\ idApply[r] = "absent"
                   /\ Count(resolveLog[r], "idValue") = 0
            /\ (custom[r] /\ opState[ResourceOp(r)] = "merging") =>
                   IF resp[r].id # ""
                   THEN idValue[r] = resp[r].id /\ idApply[r] = "true"
                   ELSE idValue[r] = "undefined" /\ idApply[r] = "false"
            /\ (custom[r] /\ opState[ResourceOp(r)] \in {"merging", "fulfilled"}) =>
                   <<idValue[r], idApply[r]>> \in
                       {<<i, "true">> : i \in EngineIDs \ {""}} \cup {<<"undefined", "false">>}

C12_Witness ==
    \E r, q \in Res :
        /\ rkind[r] = "register" /\ custom[r] /\ opState[ResourceOp(r)] = "fulfilled"
        /\ idValue[r] = "undefined" /\ idApply[r] = "false"
        /\ rkind[q] = "register" /\ ~custom[q] /\ opState[ResourceOp(q)] = "merging"
        /\ idValue[q] = "absent" /\ resp[q].id = "id:e"

\* The callback of an operation has started / has completed.
Started(o) == opState[o] \in {"awaitUrn", "rpc", "merging", "fulfilled", "rejected"}
Done(o) == opState[o] \in {"fulfilled", "rejected"}

\* C13: serial operations run one at a time, in the order runAsyncResourceOp
\* was called for them: a serial operation waits on the one scheduled just
\* before it, a later one has not started unless every earlier one has
\* completed (fulfilled or rejected), and at most one serial callback, hence
\* at most one serial remote call, is under way.
C13_SerialOrder ==
    /\ \A j \in 1..Len(serialOrder) :
          LET o == serialOrder[j]
          IN /\ opSerial[o] /\ opState[o] # "none"
             /\ opState[o] = "waiting" =>
                    opPred[o] = IF j = 1 THEN InitialChain ELSE serialOrder[j - 1]
             /\ \A i \in 1..(j - 1) : Started(o) => Done(serialOrder[i])
    /\ Cardinality({o \in Ops : opSerial[o] /\ Started(o) /\ ~Done(o)}) <= 1
    /\ Cardinality({o \in Ops : opSerial[o] /\ opState[o] = "rpc"}) <= 1

\* Scheduled in the reverse of declaration order: the first has failed, the
\* second's call is outstanding.
C13_Witness ==
    /\ Len(serialOrder) = 2
    /\ serialOrder[1][1] > serialOrder[2][1]
    /\ opState[serialOrder[1]] = "rejected"
    /\ opState[serialOrder[2]] = "rpc"

\* a was scheduled as a serial operation before b was.
Behind(a, b) ==
    \E i, j \in 1..Len(serialOrder) :
        i < j /\ serialOrder[i] = a /\ serialOrder[j] = b

\* C14 as stated: once a serial operation has been rejected, every serial
\* operation scheduled behind it eventually has its callback started.
C14_EveryLaterOperationStarts ==
    \A b \in Ops :
        (\E a \in Ops : opState[a] = "rejected" /\ Behind(a, b)) ~> Started(b)

\* C14, amended: a rejected serial operation still completes the chain
\* future it fed, and every serial operation scheduled behind it eventually
\* has its callback started, unless the client parks first.
C14_ChainSurvivesFailure ==
    /\ [](\A a \in Ops : (opSerial[a] /\ opState[a] = "rejected") => ChainDone(a))
    /\ \A b \in Ops :
          (\E a \in Ops : opState[a] = "rejected" /\ Behind(a, b))
              ~> (Started(b) \/ parked)

\* The first serial operation was rejected and the one behind it went on to
\* complete.
C14_Witness ==
    /\ Len(serialOrder) = 2
    /\ opState[serialOrder[1]] = "rejected"
    /\ opState[serialOrder[2]] = "fulfilled"
    /\ \E e \in unhandled : e.from = serialOrder[1] /\ e.detail = "INTERNAL"

\* C15: whenever another task can run, a resource whose registerResource /
\* readResource call has begun has its URN, its id (if custom) and its
\* property outputs all attached, and a resource whose call has not begun
\* (or threw) has none of them.
C15_PreparationIsAtomic ==
    \A r \in Res :
        IF Declared(r)
        THEN /\ urn[r] # "absent"
             /\ outProps[r] # "absent"
             /\ custom[r] => (idValue[r] # "absent" /\ idApply[r] # "absent")
        ELSE /\ urn[r] = "absent" /\ outProps[r] = "absent"
             /\ idValue[r] = "absent" /\ idApply[r] = "absent"

\* A custom resource suspended in preparation, everything attached and
\* still pending, while another resource's call is already outstanding.
C15_Witness ==
    \E r, q \in Res :
        /\ Declared(r) /\ custom[r] /\ props[r].pending
        /\ opState[ResourceOp(r)] = "none"
        /\ urn[r] = "pending" /\ idValue[r] = "pending" /\ outProps[r] = "pending"
        /\ opState[ResourceOp(q)] = "rpc"

\* The resources whose URN the preparation of r still has to await.
Awaited(r) ==
    Range(opts[r].dependsOn) \cup Range(props[r].refs)
        \cup (IF opts[r].parent # 0 THEN {opts[r].parent} ELSE {})
        \cup (IF custom[r] /\ opts[r].provider # 0 THEN {opts[r].provider} ELSE {})

\* C16: while the URN of an explicit dependency, of an implicitly referenced
\* resource, of the parent or of the provider (or the provider's id) is
\* unresolved, the resource's operation is not scheduled, has no request
\* and is not the chain; the request of a scheduled operation carries
\* resolved URNs only; so a resource that awaits a resource whose
\* registration failed never gets as far as being scheduled.
C16_NoCallBeforeDependencies ==
    \A r \in Res :
        /\ (Declared(r) /\
               \/ \E d \in Awaited(r) : ~Resolved(urn[d])
               \/ /\ custom[r] /\ opts[r].provider # 0
                  /\ ~Resolved(idValue[opts[r].provider])) =>
               /\ opState[ResourceOp(r)] = "none"
               /\ req[ResourceOp(r)] = NoReq
               /\ resourceChain # ResourceOp(r)
        /\ opState[ResourceOp(r)] = "waiting" =>
               LET q == req[ResourceOp(r)]
               IN /\ \A u \in Range(q.dependencies) : Resolved(u)
                  /\ Resolved(q.parent)
                  /\ q.provider # <<>> => (Resolved(q.provider[1]) /\ Resolved(q.provider[2]))
        /\ \A d \in Awaited(r) :
               opState[ResourceOp(d)] = "rejected" => ~Issued(r)

\* The parent's registration failed: the child stays in preparation.
C16_Witness ==
    \E r, d \in Res :
        /\ Declared(r) /\ opts[r].parent = d
        /\ opState[ResourceOp(d)] = "rejected" /\ urn[d] = "pending"
        /\ opState[ResourceOp(r)] = "none"

\* C17: the RegisterResourceOutputs call of a resource is issued only once
\* the resource's URN has resolved, and its request carries that URN; while
\* the URN is unresolved no such request exists.
C17_OutputsAfterUrn ==
    \A r \in Res :
        /\ opState[OutputsOp(r)] \in {"rpc", "fulfilled", "rejected"} => Resolved(urn[r])
        /\ opState[OutputsOp(r)] = "rpc" =>
               /\ req[OutputsOp(r)] = [rpc |-> "outputs", urn |-> urn[r]]
               /\ urn[r] = EngineURN(r)
        /\ ~Resolved(urn[r]) => req[OutputsOp(r)] = NoReq

\* One component's outputs call is outstanding with its URN; another's
\* registration failed and its outputs callback is left awaiting the URN.
C17_Witness ==
    \E r, q \in Res :
        /\ opState[OutputsOp(r)] = "rpc" /\ req[OutputsOp(r)].urn = EngineURN(r)
        /\ opState[ResourceOp(q)] = "rejected"
        /\ opState[OutputsOp(q)] = "awaitUrn" /\ urn[q] = "pending"

\* C18: the chain future is the initial future or the serial operation
\* scheduled last, so scheduling a non-serial operation leaves it as it was;
\* no operation waits on a non-serial operation; and with serialize mode
\* off the chain stays the initial, completed future and nothing waits.
C18_NonSerialLeavesChain ==
    /\ resourceChain =
          IF serialOrder = <<>> THEN InitialChain ELSE serialOrder[Len(serialOrder)]
    /\ resourceChain # InitialChain => opSerial[resourceChain]
    /\ \A o \in Ops : opPred[o] # InitialChain => opSerial[opPred[o]]
    /\ \A o \in Ops : opState[o] # "none" => (opSerial[o] <=> (serializeMode /\ o[2] = "resource"))
    /\ ~serializeMode =>
          /\ resourceChain = InitialChain
          /\ \A o \in Ops : opPred[o] = InitialChain /\ ~opSerial[o]

\* Serialize mode: an outputs operation and a later registration both wait
\* on the same serial operation, which is still the chain's predecessor.
C18_Witness ==
    \E r, q \in Res :
        /\ r # q
        /\ opState[OutputsOp(r)] = "waiting" /\ opPred[OutputsOp(r)] = ResourceOp(r)
        /\ opState[ResourceOp(q)] = "waiting" /\ opPred[ResourceOp(q)] = ResourceOp(r)
        /\ resourceChain = ResourceOp(q)

\* C19: parking is absorbing.  No step is taken once the client has parked;
\* and the step that parks is the return of a register or outputs call, in
\* which nothing is resolved, started, completed, released or raised.
C19_ParkingIsAbsorbing ==
    [][/\ ~parked
       /\ parked' =>
             /\ UNCHANGED <<resVars, deferredVars, opVars>>
             /\ \E o \in Ops :
                   /\ opState[o] = "rpc"
                   /\ o[2] = "outputs" \/ rkind[o[1]] = "register"]_vars

\* Parked with a callback that was ready to start, a token held and a
\* deferred value unresolved.
C19_Witness ==
    /\ parked
    /\ \E o \in Ops : opState[o] = "waiting" /\ ChainDone(opPred[o])
    /\ keepAlive > 1
    /\ \E r \in Res : urn[r] = "pending"
    /\ \A e \in unhandled : e.detail # "UNAVAILABLE"

\* C20: in serialize mode, with an engine that answers every call
\* successfully and inputs that resolve, every registered or read resource
\* eventually has its URN resolved and every outputs operation eventually
\* issues its remote call, also when its bag refers to resources registered
\* after it was scheduled.
C20_NoSelfDeadlock ==
    /\ \A r \in Res : (serializeMode /\ Declared(r)) ~> Resolved(urn[r])
    /\ \A r \in Res :
          (serializeMode /\ opState[OutputsOp(r)] # "none")
              ~> (opState[OutputsOp(r)] \in {"rpc", "fulfilled"})

\* The outputs of r refer to a later-declared resource whose registration
\* is not scheduled yet; r's outputs operation is, and r's own registration
\* is not scheduled either.
C20_Witness ==
    /\ serializeMode
    /\ \E r, q \in Res :
          /\ r < q /\ q \in outputsBag[r]
          /\ opState[OutputsOp(r)] = "awaitUrn"
          /\ opState[ResourceOp(r)] = "none"
          /\ opState[ResourceOp(q)] = "none"

\* C21: a prepared resource has an id deferred value (both channels) if and
\* only if it was prepared as custom, and its id resolver is called, once,
\* on a successful return if and only if it was prepared as custom; a read
\* resource is always custom, a registered one as its custom argument says.
C21_IdIffCustom ==
    \A r \in Res :
        Declared(r) =>
            /\ idValue[r] # "absent" <=> custom[r]
            /\ idApply[r] # "absent" <=> custom[r]
            /\ rkind[r] = "read" => custom[r]
            /\ Count(resolveLog[r], "idValue") =
                  IF custom[r] /\ opState[ResourceOp(r)] \in {"merging", "fulfilled"}
                  THEN 1 ELSE 0
            /\ Count(resolveLog[r], "idApply") = Count(resolveLog[r], "idValue")

\* A component registered without an id next to a read resource with one,
\* both after a successful return.
C21_Witness ==
    \E r, q \in Res :
        /\ rkind[r] = "register" /\ ~custom[r]
        /\ opState[ResourceOp(r)] = "fulfilled"
        /\ idValue[r] = "absent" /\ resolveLog[r] = <<"urn">>
        /\ rkind[q] = "read" /\ opState[ResourceOp(q)] = "fulfilled"
        /\ Resolved(idValue[q]) /\ resolveLog[q] = <<"urn", "idValue", "idApply">>

====
